---------------------------- MODULE Spec2Model ----------------------------
(* Item CRUD service (FastAPI + SQLAlchemy async session + PostgreSQL).    *)
(* One process per in-flight HTTP request; every await on the storage      *)
(* engine is one step.  The persisted table is the committed state of the  *)
(* "items" table under read-committed isolation.  A create draws its      *)
(* created_at when its transaction begins (now(), clock), its id when the  *)
(* INSERT runs (the table's sequence, nextId), and shows its row when it  *)
(* commits; an UPDATE or DELETE takes the lock of its row when the        *)
(* statement runs and shows its change when it commits.                   *)
EXTENDS Integers, Sequences, FiniteSets, TLC

VARIABLES table, nextId, clock, pc, req, item, dirty, session, resp

vars == <<table, nextId, clock, pc, req, item, dirty, session, resp>>

(* ------------------------------ bounds -------------------------------- *)
MaxId == 2
MaxClock == 2

Procs == {"r1", "r2"}

(* ------------------------ program constants --------------------------- *)
MinNameLen == 1
MaxNameLen == 255
MaxDescLen == 2000
DefaultSkip == 0
DefaultLimit == 100
StatusOk == 200
StatusCreated == 201
StatusNoContent == 204
StatusUnprocessable == 422
StatusNotFound == 404
StatusServerError == 500

(* ------------------------------ strings ------------------------------- *)
(* A string is kept run-length encoded: a sequence of runs [ch, n].       *)
Rep(ch, n) == IF n = 0 THEN <<>> ELSE <<[ch |-> ch, n |-> n]>>

RECURSIVE StrLen(_)
StrLen(s) == IF s = <<>> THEN 0 ELSE Head(s).n + StrLen(Tail(s))

(* A JSON field of a payload: absent, null, or a string.                  *)
Unset == [k |-> "unset", s |-> <<>>]
Null == [k |-> "null", s |-> <<>>]
Str(s) == [k |-> "str", s |-> s]

NameStrings == {Rep("a", 0), Rep(" ", 1), Rep("a", MaxNameLen),
                Rep("a", MaxNameLen + 1)}
DescStrings == {Rep("d", 1), Rep("d", MaxDescLen + 1)}

NameInputs == {Unset, Null} \cup {Str(s) : s \in NameStrings}
UpdateNameInputs == {Unset, Null, Str(Rep("a", MaxNameLen)), Str(Rep("a", MaxNameLen + 1))}
DescInputs == {Unset, Null} \cup {Str(s) : s \in DescStrings}
ReqIds == 0 .. MaxId
SkipInputs == {DefaultSkip, 1, 2}
LimitInputs == {0, 1, 2, DefaultLimit}

(* Inputs of the concurrent specification.                                *)
ConcCreateNames == {Str(Rep("a", MaxNameLen))}
ConcUpdateNames == {Unset, Str(Rep("a", 1))}
ConcIds == {1}

(* ------------------------------ schemas ------------------------------- *)
(* Faulty:  the upper bound of the name taken as exclusive.                *)
NameLenOkExclusive(v) == StrLen(v.s) >= MinNameLen /\ StrLen(v.s) < MaxNameLen

NameLenOk(v) == StrLen(v.s) >= MinNameLen /\ StrLen(v.s) <= MaxNameLen
DescLenOk(v) == StrLen(v.s) <= MaxDescLen

(* ItemCreate: the set of fields that fail validation.                    *)
ValidateCreate(name, description) ==
    (IF name.k = "str" /\ NameLenOk(name) THEN {} ELSE {"name"})
    \cup (IF description.k = "str" /\ ~DescLenOk(description)
          THEN {"description"} ELSE {})

(* ItemUpdate: both fields Optional, None allowed for both.               *)
ValidateUpdate(name, description) ==
    (IF name.k = "str" /\ ~NameLenOk(name) THEN {"name"} ELSE {})
    \cup (IF description.k = "str" /\ ~DescLenOk(description)
          THEN {"description"} ELSE {})

(* data.model_dump(): every field, an unset one at its default (None).    *)
ModelDump(name, description) ==
    [name |-> IF name.k = "unset" THEN Null ELSE name,
     description |-> IF description.k = "unset" THEN Null ELSE description]

(* Faulty:  model_dump() without exclude_unset, so that a field absent     *)
(* from the payload is written as None.                                   *)
ModelDumpAllFields(name, description) ==
    [f \in {"name", "description"} |-> ModelDump(name, description)[f]]

(* data.model_dump(exclude_unset=True): only the fields that were given.  *)
ModelDumpExcludeUnset(name, description) ==
    [f \in {g \in {"name", "description"} :
               (IF g = "name" THEN name ELSE description).k # "unset"}
       |-> IF f = "name" THEN name ELSE description]

(* ------------------------------- model -------------------------------- *)
NoItem == [present |-> FALSE, id |-> 0, name |-> Null, description |-> Null,
           created_at |-> 0]

NewItem(data) == [present |-> TRUE, id |-> 0, name |-> data.name,
                  description |-> data.description, created_at |-> 0]

(* The ORM object of a persisted row.                                     *)
RowItem(tbl, id) == [present |-> TRUE, id |-> id, name |-> tbl[id].name,
                     description |-> tbl[id].description,
                     created_at |-> tbl[id].created_at]

(* session.get(Item, id): the row, or None.                               *)
DbGet(tbl, id) == IF id \in DOMAIN tbl THEN RowItem(tbl, id) ELSE NoItem

(* -------------------------- error translator -------------------------- *)
NoResp == [status |-> 0, detail |-> "", errors |-> {}, items |-> <<>>]

Truthy(rid) == rid.given /\ rid.v # 0

NotFoundMessage(resource, rid) ==
    IF Truthy(rid)
    THEN resource \o " with id '" \o ToString(rid.v) \o "' not found"
    ELSE resource \o " not found"

(* Faulty:  the not-found error translated as a bad request.               *)
NotFoundAsBadRequest(resource, rid) ==
    [status |-> 400, detail |-> NotFoundMessage(resource, rid),
     errors |-> {}, items |-> <<>>]

NotFoundResponse(resource, rid) ==
    [status |-> StatusNotFound, detail |-> NotFoundMessage(resource, rid),
     errors |-> {}, items |-> <<>>]

GenericErrorResponse ==
    [status |-> StatusServerError, detail |-> "Internal server error",
     errors |-> {}, items |-> <<>>]

ValidationErrorResponse(fields) ==
    [status |-> StatusUnprocessable, detail |-> "", errors |-> fields,
     items |-> <<>>]

ItemResponse(status, it) ==
    [status |-> status, detail |-> "", errors |-> {}, items |-> <<it>>]

ListResponse(its) ==
    [status |-> StatusOk, detail |-> "", errors |-> {}, items |-> its]

EmptyResponse(status) ==
    [status |-> status, detail |-> "", errors |-> {}, items |-> <<>>]

NoReq == [op |-> "none", id |-> 0, name |-> Unset, description |-> Unset,
          skip |-> 0, limit |-> 0]


(* ------------------------- storage statements ------------------------- *)
(* INSERT INTO items (name, description) ... RETURNING id, with           *)
(* created_at = now() from the server default.                            *)
InsertRow(tbl, id, it, now) ==
    [i \in DOMAIN tbl \cup {id} |->
        IF i = id THEN [name |-> it.name, description |-> it.description,
                        created_at |-> now]
        ELSE tbl[i]]

(* setattr(item, key, value) for every key of update_data.                *)
SetAttrs(it, data) ==
    [it EXCEPT !.name = IF "name" \in DOMAIN data THEN data["name"] ELSE @,
               !.description = IF "description" \in DOMAIN data
                               THEN data["description"] ELSE @]

(* The attributes whose history records a net change.                     *)
DirtyAttrs(it, data) == {f \in DOMAIN data : data[f] # it[f]}

(* UPDATE items SET <dirty columns> WHERE id = :id, as the unit of work   *)
(* emits it at flush: nothing when nothing is dirty, StaleDataError when  *)
(* no row matched, IntegrityError when name (NOT NULL) is set to NULL.    *)
UpdateOutcome(tbl, it, d) ==
    IF d = {} THEN "noop"
    ELSE IF it.id \notin DOMAIN tbl THEN "stale"
    ELSE IF "name" \in d /\ it.name.k = "null" THEN "integrity"
    ELSE "ok"

UpdateRow(tbl, it, d) ==
    [i \in DOMAIN tbl |->
        IF i = it.id
        THEN [name |-> IF "name" \in d THEN it.name ELSE tbl[i].name,
              description |-> IF "description" \in d THEN it.description
                              ELSE tbl[i].description,
              created_at |-> tbl[i].created_at]
        ELSE tbl[i]]

(* Faulty:  every column written in a transaction of its own, so that the  *)
(* description is kept when the name is rejected.                         *)
CommitUpdateTableByColumn(tbl, it, d) ==
    IF UpdateOutcome(tbl, it, d) = "ok" THEN UpdateRow(tbl, it, d)
    ELSE IF UpdateOutcome(tbl, it, d) = "integrity"
         THEN UpdateRow(tbl, it, d \ {"name"})
    ELSE tbl

(* Faulty:  the object merged into the table, inserted when its row is     *)
(* not there.                                                             *)
CommitUpdateTableMerge(tbl, it, d) ==
    IF UpdateOutcome(tbl, it, d) = "ok" THEN UpdateRow(tbl, it, d)
    ELSE IF UpdateOutcome(tbl, it, d) = "stale"
         THEN InsertRow(tbl, it.id, it, it.created_at)
    ELSE tbl

(* The committed table once the transaction of an update has ended, by   *)
(* COMMIT or, after a failed statement, by ROLLBACK.                      *)
CommitUpdateTable(tbl, it, d) ==
    IF UpdateOutcome(tbl, it, d) = "ok" THEN UpdateRow(tbl, it, d) ELSE tbl

(* Faulty:  the row marked deleted and kept.                               *)
DeleteRowSoft(tbl, id) == tbl

(* DELETE FROM items WHERE id = :id (no row matched is only a warning).   *)
DeleteRow(tbl, id) == [i \in DOMAIN tbl \ {id} |-> tbl[i]]

(* The orders in which the rows of a result set can come.                 *)
Arrangements(S) ==
    {s \in [1 .. Cardinality(S) -> S] :
        \A i, j \in 1 .. Cardinality(S) : i # j => s[i] # s[j]}

(* Faulty:  ORDER BY created_at ascending.                                 *)
OrderByCreatedAtAsc(tbl) ==
    {s \in Arrangements(DOMAIN tbl) :
        \A i, j \in 1 .. Len(s) :
            i < j => tbl[s[i]].created_at <= tbl[s[j]].created_at}

(* SELECT ... ORDER BY created_at DESC: every order the engine may give   *)
(* the rows in (rows with equal created_at come in any order).            *)
OrderByCreatedAtDesc(tbl) ==
    {s \in Arrangements(DOMAIN tbl) :
        \A i, j \in 1 .. Len(s) :
            i < j => tbl[s[i]].created_at >= tbl[s[j]].created_at}

RECURSIVE Offset(_, _)
Offset(s, n) == IF n = 0 \/ s = <<>> THEN s ELSE Offset(Tail(s), n - 1)

RECURSIVE Limit(_, _)
Limit(s, n) == IF n = 0 \/ s = <<>> THEN <<>>
               ELSE <<Head(s)>> \o Limit(Tail(s), n - 1)

SelectItems(tbl, order, skip, limit) ==
    [k \in 1 .. Len(Limit(Offset(order, skip), limit)) |->
        RowItem(tbl, Limit(Offset(order, skip), limit)[k])]

(* ------------------------------- state -------------------------------- *)
Init ==
    /\ table = <<>>
    /\ nextId = 1
    /\ clock = 1
    /\ pc = [p \in Procs |-> "idle"]
    /\ req = [p \in Procs |-> NoReq]
    /\ item = [p \in Procs |-> NoItem]
    /\ dirty = [p \in Procs |-> {}]
    /\ session = [p \in Procs |-> "none"]
    /\ resp = [p \in Procs |-> NoResp]

(* get_db: a new session for the request.                                 *)
Acquire(p) == session' = [session EXCEPT ![p] = "open"]

(* The handler has returned or raised: the response is fixed.             *)
Finish(p, r) ==
    /\ resp' = [resp EXCEPT ![p] = r]
    /\ pc' = [pc EXCEPT ![p] = "teardown"]

(* The creates in flight that have not drawn their id yet.               *)
AwaitingId == {q \in Procs : req[q].op = "create" /\ pc[q] \in {"begin", "insert"}}

(* POST /items                                                            *)
BeginCreate(p, name, description) ==
    /\ pc[p] = "idle"
    /\ nextId + Cardinality(AwaitingId) <= MaxId
    /\ Acquire(p)
    /\ req' = [req EXCEPT ![p] = [NoReq EXCEPT !.op = "create", !.name = name,
                                         !.description = description]]
    /\ IF ValidateCreate(name, description) # {}
       THEN /\ Finish(p, ValidationErrorResponse(ValidateCreate(name, description)))
            /\ UNCHANGED item
       ELSE /\ item' = [item EXCEPT ![p] = NewItem(ModelDump(name, description))]
            /\ pc' = [pc EXCEPT ![p] = "begin"]
            /\ UNCHANGED resp
    /\ UNCHANGED <<table, nextId, clock, dirty>>

(* GET /items?skip=&limit=                                                *)
BeginList(p, skip, limit) ==
    /\ pc[p] = "idle"
    /\ Acquire(p)
    /\ req' = [req EXCEPT ![p] = [NoReq EXCEPT !.op = "list", !.skip = skip,
                                         !.limit = limit]]
    /\ pc' = [pc EXCEPT ![p] = "select"]
    /\ UNCHANGED <<table, nextId, clock, item, dirty, resp>>

(* GET /items/{item_id}                                                   *)
BeginGet(p, id) ==
    /\ pc[p] = "idle"
    /\ Acquire(p)
    /\ req' = [req EXCEPT ![p] = [NoReq EXCEPT !.op = "get", !.id = id]]
    /\ pc' = [pc EXCEPT ![p] = "get"]
    /\ UNCHANGED <<table, nextId, clock, item, dirty, resp>>

(* PUT /items/{item_id}                                                   *)
BeginUpdate(p, id, name, description) ==
    /\ pc[p] = "idle"
    /\ Acquire(p)
    /\ req' = [req EXCEPT ![p] = [NoReq EXCEPT !.op = "update", !.id = id,
                                         !.name = name,
                                         !.description = description]]
    /\ IF ValidateUpdate(name, description) # {}
       THEN Finish(p, ValidationErrorResponse(ValidateUpdate(name, description)))
       ELSE /\ pc' = [pc EXCEPT ![p] = "get"]
            /\ UNCHANGED resp
    /\ UNCHANGED <<table, nextId, clock, item, dirty>>

(* DELETE /items/{item_id}                                                *)
BeginDelete(p, id) ==
    /\ pc[p] = "idle"
    /\ Acquire(p)
    /\ req' = [req EXCEPT ![p] = [NoReq EXCEPT !.op = "delete", !.id = id]]
    /\ pc' = [pc EXCEPT ![p] = "get"]
    /\ UNCHANGED <<table, nextId, clock, item, dirty, resp>>

(* ItemService.get_all                                                    *)
GetAll(p) ==
    /\ pc[p] = "select"
    /\ \E order \in OrderByCreatedAtDesc(table) :
          Finish(p, ListResponse(SelectItems(table, order, req[p].skip,
                                             req[p].limit)))
    /\ UNCHANGED <<table, nextId, clock, req, item, dirty, session>>

(* ItemService.get_by_id, and what its caller does up to the next await.  *)
GetById(p) ==
    /\ pc[p] = "get"
    /\ IF ~DbGet(table, req[p].id).present
       THEN /\ Finish(p, NotFoundResponse("Item", [given |-> TRUE, v |-> req[p].id]))
            /\ UNCHANGED <<item, dirty>>
       ELSE CASE req[p].op = "get" ->
                   /\ Finish(p, ItemResponse(StatusOk, DbGet(table, req[p].id)))
                   /\ UNCHANGED <<item, dirty>>
              [] req[p].op = "update" ->
                   /\ item' = [item EXCEPT ![p] =
                         SetAttrs(DbGet(table, req[p].id),
                                  ModelDumpExcludeUnset(req[p].name,
                                                        req[p].description))]
                   /\ dirty' = [dirty EXCEPT ![p] =
                         DirtyAttrs(DbGet(table, req[p].id),
                                    ModelDumpExcludeUnset(req[p].name,
                                                          req[p].description))]
                   /\ pc' = [pc EXCEPT ![p] = "flush"]
                   /\ UNCHANGED resp
              [] req[p].op = "delete" ->
                   /\ item' = [item EXCEPT ![p] = DbGet(table, req[p].id)]
                   /\ pc' = [pc EXCEPT ![p] = "flush"]
                   /\ UNCHANGED <<resp, dirty>>
    /\ UNCHANGED <<table, nextId, clock, req, session>>

(* ItemService.create, db.commit(): the flush opens the transaction      *)
(* (BEGIN), which fixes the now() of the transaction.                     *)
CreateBegin(p) ==
    /\ pc[p] = "begin"
    /\ \E now \in {clock, clock + 1} :
          /\ now <= MaxClock
          /\ clock' = now
          /\ item' = [item EXCEPT ![p] = [@ EXCEPT !.created_at = now]]
    /\ pc' = [pc EXCEPT ![p] = "insert"]
    /\ UNCHANGED <<table, nextId, req, dirty, session, resp>>

(* ItemService.create, db.commit(): the flush emits the INSERT, which     *)
(* draws the id from the sequence; the row is not visible to others yet.  *)
CreateInsert(p) ==
    /\ pc[p] = "insert"
    /\ item' = [item EXCEPT ![p] = [@ EXCEPT !.id = nextId]]
    /\ nextId' = nextId + 1
    /\ pc' = [pc EXCEPT ![p] = "commit"]
    /\ UNCHANGED <<table, clock, req, dirty, session, resp>>

(* ItemService.create, db.commit(): COMMIT makes the row visible.         *)
CommitCreate(p) ==
    /\ pc[p] = "commit" /\ req[p].op = "create"
    /\ table' = InsertRow(table, item[p].id, item[p], item[p].created_at)
    /\ pc' = [pc EXCEPT ![p] = "refresh"]
    /\ UNCHANGED <<nextId, clock, req, item, dirty, session, resp>>

(* The requests whose UPDATE or DELETE has written row id and whose       *)
(* COMMIT is still to come: they hold the lock of the row.                *)
LockHolders(id) ==
    {q \in Procs : /\ pc[q] = "commit"
                   /\ req[q].op \in {"update", "delete"}
                   /\ item[q].id = id
                   /\ id \in DOMAIN table
                   /\ req[q].op = "update" => dirty[q] # {}}

(* ItemService.update, db.commit(): the flush emits the UPDATE, which     *)
(* waits for the lock of the row; a failed statement rolls back and       *)
(* raises.                                                                *)
FlushUpdate(p) ==
    /\ pc[p] = "flush" /\ req[p].op = "update"
    /\ dirty[p] # {} => LockHolders(item[p].id) \ {p} = {}
    /\ IF UpdateOutcome(table, item[p], dirty[p]) \in {"ok", "noop"}
       THEN /\ pc' = [pc EXCEPT ![p] = "commit"]
            /\ UNCHANGED <<resp, table>>
       ELSE /\ table' = CommitUpdateTable(table, item[p], dirty[p])
            /\ Finish(p, GenericErrorResponse)
    /\ UNCHANGED <<nextId, clock, req, item, dirty, session>>

(* ItemService.update, db.commit(): COMMIT makes the change visible.      *)
CommitUpdate(p) ==
    /\ pc[p] = "commit" /\ req[p].op = "update"
    /\ table' = CommitUpdateTable(table, item[p], dirty[p])
    /\ pc' = [pc EXCEPT ![p] = "refresh"]
    /\ UNCHANGED <<nextId, clock, req, item, dirty, session, resp>>

(* ItemService.delete: db.delete(item), then db.commit(): the flush emits *)
(* the DELETE, which waits for the lock of the row.                       *)
FlushDelete(p) ==
    /\ pc[p] = "flush" /\ req[p].op = "delete"
    /\ LockHolders(item[p].id) \ {p} = {}
    /\ pc' = [pc EXCEPT ![p] = "commit"]
    /\ UNCHANGED <<table, nextId, clock, req, item, dirty, session, resp>>

(* ItemService.delete, db.commit(): COMMIT removes the row.               *)
CommitDelete(p) ==
    /\ pc[p] = "commit" /\ req[p].op = "delete"
    /\ table' = DeleteRow(table, item[p].id)
    /\ Finish(p, EmptyResponse(StatusNoContent))
    /\ UNCHANGED <<nextId, clock, req, item, dirty, session>>

(* db.refresh(item), then the handler returns the item.                   *)
Refresh(p) ==
    /\ pc[p] = "refresh"
    /\ IF DbGet(table, item[p].id).present
       THEN /\ item' = [item EXCEPT ![p] = DbGet(table, item[p].id)]
            /\ Finish(p, ItemResponse(IF req[p].op = "create" THEN StatusCreated
                                      ELSE StatusOk,
                                      DbGet(table, item[p].id)))
       ELSE /\ Finish(p, GenericErrorResponse)
            /\ UNCHANGED item
    /\ UNCHANGED <<table, nextId, clock, req, dirty, session>>

(* Faulty:  the session closed only when the handler did not fail.         *)
ReleaseUnlessFailed(p) ==
    /\ pc[p] = "teardown"
    /\ session' = [session EXCEPT ![p] =
                       IF resp[p].status = StatusServerError THEN @ ELSE "closed"]
    /\ pc' = [pc EXCEPT ![p] = "idle"]
    /\ req' = [req EXCEPT ![p] = NoReq]
    /\ item' = [item EXCEPT ![p] = NoItem]
    /\ dirty' = [dirty EXCEPT ![p] = {}]
    /\ resp' = [resp EXCEPT ![p] = NoResp]
    /\ UNCHANGED <<table, nextId, clock>>

(* get_db: the session is closed when the request is done.                *)
Release(p) ==
    /\ pc[p] = "teardown"
    /\ session' = [session EXCEPT ![p] = "closed"]
    /\ pc' = [pc EXCEPT ![p] = "idle"]
    /\ req' = [req EXCEPT ![p] = NoReq]
    /\ item' = [item EXCEPT ![p] = NoItem]
    /\ dirty' = [dirty EXCEPT ![p] = {}]
    /\ resp' = [resp EXCEPT ![p] = NoResp]
    /\ UNCHANGED <<table, nextId, clock>>

(* A step of the service on behalf of request p.                          *)
Step(p) ==
    \/ GetAll(p)
    \/ GetById(p)
    \/ CreateBegin(p)
    \/ CreateInsert(p)
    \/ CommitCreate(p)
    \/ FlushUpdate(p)
    \/ CommitUpdate(p)
    \/ FlushDelete(p)
    \/ CommitDelete(p)
    \/ Refresh(p)
    \/ Release(p)

(* A client that awaits each response before its next request.            *)
OthersIdle(p) == \A q \in Procs \ {p} : pc[q] = "idle"

Next ==
    \E p \in Procs :
        \/ OthersIdle(p) /\ \E n \in NameInputs, d \in DescInputs : BeginCreate(p, n, d)
        \/ OthersIdle(p) /\ \E s \in SkipInputs, l \in LimitInputs : BeginList(p, s, l)
        \/ OthersIdle(p) /\ \E i \in ReqIds : BeginGet(p, i)
        \/ OthersIdle(p) /\ \E i \in ReqIds, n \in UpdateNameInputs, d \in DescInputs :
                               BeginUpdate(p, i, n, d)
        \/ OthersIdle(p) /\ \E i \in ReqIds : BeginDelete(p, i)
        \/ Step(p)

Spec == Init /\ [][Next]_vars

(* Requests served concurrently, one task per request; the event loop     *)
(* resumes every task whose storage round trip has completed.             *)
ConcNext ==
    \E p \in Procs :
        \/ \E n \in ConcCreateNames : BeginCreate(p, n, Unset)
        \/ BeginList(p, DefaultSkip, DefaultLimit)
        \/ \E i \in ConcIds : BeginGet(p, i)
        \/ \E i \in ConcIds, n \in ConcUpdateNames : BeginUpdate(p, i, n, Unset)
        \/ \E i \in ConcIds : BeginDelete(p, i)
        \/ Step(p)

ConcSpec == Init /\ [][ConcNext]_vars /\ \A p \in Procs : WF_vars(Step(p))

(* ============================ properties ============================= *)
(* Request p takes a step.                                                *)
Moves(p) == pc'[p] # pc[p]

(* Request p leaves the step named by at.                                 *)
Leaves(p, at) == pc[p] = at /\ pc'[p] # at

Given(v) == v.k # "unset"

(* The ids drawn by a create whose row is inserted and not yet committed. *)
Uncommitted == {item[q].id : q \in {r \in Procs : req[r].op = "create"
                                                   /\ pc[r] = "commit"}}

(* The ids handed out so far whose row was committed and is gone.         *)
Deleted == {i \in 1 .. (nextId - 1) : i \notin DOMAIN table /\ i \notin Uncommitted}

(* C1: an update changes exactly the fields present in the payload: an    *)
(* absent field keeps its value, a present one takes the payload's value  *)
(* when the update succeeds, id and created_at never change, and no other *)
(* row is touched.                                                        *)
C1_UpdateFrame ==
    [][\A p \in Procs :
        /\ ((Leaves(p, "flush") \/ Leaves(p, "commit")) /\ req[p].op = "update") =>
              /\ DOMAIN table' = DOMAIN table
              /\ \A i \in DOMAIN table : i # req[p].id => table'[i] = table[i]
              /\ req[p].id \in DOMAIN table =>
                    /\ table'[req[p].id].created_at = table[req[p].id].created_at
                    /\ ~Given(req[p].name) =>
                          table'[req[p].id].name = table[req[p].id].name
                    /\ ~Given(req[p].description) =>
                          table'[req[p].id].description =
                              table[req[p].id].description
                    /\ pc'[p] = "refresh" =>
                          /\ Given(req[p].name) =>
                                table'[req[p].id].name = req[p].name
                          /\ Given(req[p].description) =>
                                table'[req[p].id].description = req[p].description
        /\ (Leaves(p, "refresh") /\ req[p].op = "update"
              /\ resp'[p].status = StatusOk) =>
              /\ resp'[p].items[1].id = req[p].id
              /\ ~Given(req[p].name) => resp'[p].items[1].name = item[p].name
              /\ ~Given(req[p].description) =>
                    resp'[p].items[1].description = item[p].description
    ]_vars

(* An update of the name alone has committed on a row with a description. *)
C1_Witness ==
    \E p \in Procs :
        /\ pc[p] = "refresh" /\ req[p].op = "update"
        /\ req[p].name.k = "str" /\ ~Given(req[p].description)
        /\ "name" \in dirty[p]
        /\ req[p].id \in DOMAIN table
        /\ table[req[p].id].name = req[p].name
        /\ table[req[p].id].description.k = "str"

(* C2: get, update and delete of an id that has no row end in 404 and     *)
(* leave the table as it was.                                             *)
C2_MissingIdNotFound ==
    [][\A p \in Procs :
        /\ (Leaves(p, "get") /\ req[p].id \notin DOMAIN table) =>
              /\ resp'[p].status = StatusNotFound
              /\ pc'[p] = "teardown"
              /\ table' = table
        /\ (Moves(p) /\ resp[p].status = StatusNotFound) => table' = table
    ]_vars

(* An update with a valid name of a missing id has ended in 404.          *)
C2_Witness ==
    \E p \in Procs :
        /\ pc[p] = "teardown" /\ req[p].op = "update"
        /\ req[p].name.k = "str"
        /\ req[p].id \notin DOMAIN table
        /\ resp[p].status = StatusNotFound

(* C3: a delete that succeeds answers 204 and removes the row and no      *)
(* other; the row stays gone, and a following get or delete of that id    *)
(* ends in 404.                                                           *)
C3_DeleteIsPhysical ==
    [][\A p \in Procs :
        /\ (Leaves(p, "commit") /\ req[p].op = "delete") =>
              /\ resp'[p].status = StatusNoContent
              /\ req[p].id \notin DOMAIN table'
              /\ DOMAIN table' = DOMAIN table \ {req[p].id}
              /\ \A i \in DOMAIN table' : table'[i] = table[i]
        /\ (Leaves(p, "get") /\ req[p].op \in {"get", "delete"}
              /\ req[p].id \in Deleted) =>
              resp'[p].status = StatusNotFound
        /\ \A i \in Deleted : i \notin DOMAIN table'
    ]_vars

(* A second delete of an id whose row was deleted has ended in 404.       *)
C3_Witness ==
    \E p \in Procs :
        /\ pc[p] = "teardown" /\ req[p].op = "delete"
        /\ req[p].id \in Deleted
        /\ resp[p].status = StatusNotFound

(* The rows of tbl in the order given, as the entities returned.          *)
RowsInOrder(tbl, order) == [k \in 1 .. Len(order) |-> RowItem(tbl, order[k])]

(* The entries skip+1 .. skip+limit of a sequence.                        *)
Slice(s, skip, limit) ==
    SubSeq(s, skip + 1, IF skip + limit < Len(s) THEN skip + limit ELSE Len(s))

SortedByCreatedAtDesc(its) ==
    \A i, j \in 1 .. Len(its) : i < j => its[i].created_at >= its[j].created_at

ListDone(p) == pc[p] = "teardown" /\ req[p].op = "list"

(* C4 (as amended): list(skip, limit) answers 200 with the slice          *)
(* [skip, skip+limit) of the current rows in an order sorted by           *)
(* created_at descending, rows with equal created_at in either order; on  *)
(* an empty table it answers the empty sequence, and with two rows and    *)
(* the defaults it answers exactly those two.                             *)
C4_ListSortedSlice ==
    \A p \in Procs :
        ListDone(p) =>
            /\ resp[p].status = StatusOk
            /\ \E order \in Arrangements(DOMAIN table) :
                  /\ SortedByCreatedAtDesc(RowsInOrder(table, order))
                  /\ resp[p].items =
                        Slice(RowsInOrder(table, order), req[p].skip, req[p].limit)
            /\ DOMAIN table = {} => resp[p].items = <<>>
            /\ (Cardinality(DOMAIN table) = 2 /\ req[p].skip = DefaultSkip
                  /\ req[p].limit = DefaultLimit) =>
                  /\ Len(resp[p].items) = 2
                  /\ {resp[p].items[k].id : k \in 1 .. 2} = DOMAIN table

(* A page that starts at the second of two rows created at different      *)
(* times has been returned.                                               *)
C4_Witness ==
    \E p \in Procs :
        /\ ListDone(p)
        /\ req[p].skip = 1 /\ req[p].limit = 1
        /\ Cardinality(DOMAIN table) = 2
        /\ Len(resp[p].items) = 1
        /\ \E i \in DOMAIN table :
              table[i].created_at > resp[p].items[1].created_at

(* C4 (as claimed): with two rows and the defaults, the row created last  *)
(* comes first.                                                           *)
C4_Original ==
    \A p \in Procs :
        (ListDone(p) /\ Cardinality(DOMAIN table) = 2
            /\ req[p].skip = DefaultSkip /\ req[p].limit = DefaultLimit) =>
            /\ Len(resp[p].items) = 2
            /\ resp[p].items[1].id > resp[p].items[2].id

(* str.strip() of a run-length encoded string.                            *)
RECURSIVE StripLeft(_)
StripLeft(s) == IF s = <<>> THEN s
                ELSE IF Head(s).ch = " " THEN StripLeft(Tail(s)) ELSE s

RECURSIVE StripRight(_)
StripRight(s) == IF s = <<>> THEN s
                 ELSE IF s[Len(s)].ch = " "
                      THEN StripRight(SubSeq(s, 1, Len(s) - 1)) ELSE s

TrimmedLen(s) == StrLen(StripRight(StripLeft(s)))

CreateBegins(p) == pc[p] = "idle" /\ pc'[p] # "idle" /\ req'[p].op = "create"

(* C5 (as amended): create accepts a name exactly when its length, as     *)
(* given and untrimmed, is between 1 and 255: the empty name and a name   *)
(* of 256 characters are rejected with 422 and insert no row, 255         *)
(* characters succeed with 201, and so does a name of whitespace only.    *)
C5_CreateNameLength ==
    [][\A p \in Procs :
        /\ CreateBegins(p) =>
              /\ "name" \in resp'[p].errors <=>
                    ~(req'[p].name.k = "str"
                        /\ StrLen(req'[p].name.s) \in MinNameLen .. MaxNameLen)
              /\ resp'[p].status = StatusUnprocessable <=> resp'[p].errors # {}
              /\ resp'[p].errors # {} =>
                    /\ pc'[p] = "teardown"
                    /\ table' = table
                    /\ nextId' = nextId
              /\ resp'[p].errors = {} => pc'[p] = "begin"
        /\ (Moves(p) /\ req[p].op = "create"
              /\ resp[p].status = StatusUnprocessable) =>
              table' = table /\ nextId' = nextId
        /\ (Leaves(p, "refresh") /\ req[p].op = "create") =>
              /\ resp'[p].status = StatusCreated
              /\ resp'[p].items[1].name = req[p].name
              /\ resp'[p].items[1].id \in DOMAIN table
    ]_vars

(* A name of one blank has been created with 201.                         *)
C5_Witness ==
    \E p \in Procs :
        /\ pc[p] = "teardown" /\ req[p].op = "create"
        /\ req[p].name = Str(Rep(" ", 1))
        /\ resp[p].status = StatusCreated

(* C5 (as claimed): the name is accepted exactly when its trimmed length  *)
(* is between 1 and 255.                                                  *)
C5_Original ==
    \A p \in Procs :
        (pc[p] = "teardown" /\ req[p].op = "create") =>
            /\ resp[p].status \in {StatusCreated, StatusUnprocessable}
            /\ "description" \notin resp[p].errors =>
                  (resp[p].status = StatusCreated <=>
                      (req[p].name.k = "str"
                          /\ TrimmedLen(req[p].name.s) \in MinNameLen .. MaxNameLen))

UpdateDone(p) == pc[p] = "teardown" /\ req[p].op = "update"

(* C6: a PUT ends in 200, 404 or 422 and never in 500; a payload whose    *)
(* name is null is rejected with 422, and one whose description is null   *)
(* answers 200 with a null description on an existing item.               *)
C6_UpdateNullHandling ==
    \A p \in Procs :
        UpdateDone(p) =>
            /\ resp[p].status \in {StatusOk, StatusNotFound, StatusUnprocessable}
            /\ (req[p].name.k = "null" /\ resp[p].status # StatusNotFound) =>
                  resp[p].status = StatusUnprocessable
            /\ (req[p].description.k = "null" /\ resp[p].status = StatusOk) =>
                  resp[p].items[1].description = Null

(* C7: a 404 raised with an identifier carries the identifier in its      *)
(* body, for every integer id, 0 included.                                *)
C7_NotFoundBodyQualified ==
    \A p \in Procs :
        (pc[p] = "teardown" /\ resp[p].status = StatusNotFound) =>
            resp[p].detail =
                "Item with id '" \o ToString(req[p].id) \o "' not found"

InService(p) == pc[p] \in {"select", "get", "begin", "insert", "flush",
                            "commit", "refresh"}

(* C8: a session acquired for a request is released when the request     *)
(* ends, whatever the outcome; no request ends with its session open, and *)
(* the service only works on an open session.                             *)
C8_SessionReleased ==
    /\ [](\A p \in Procs :
            /\ pc[p] = "idle" => session[p] # "open"
            /\ InService(p) => session[p] = "open")
    /\ \A p \in Procs : (session[p] = "open") ~> (session[p] = "closed")

(* A request that failed with 500 has had its session closed after a      *)
(* request that succeeded is waiting for its own to be.                   *)
C8_Witness ==
    \E p, q \in Procs :
        /\ pc[p] = "idle" /\ session[p] = "closed"
        /\ pc[q] = "teardown" /\ session[q] = "open"
        /\ resp[q].status = StatusServerError

(* C9: a mutating operation commits all or nothing: a commit that is      *)
(* rejected leaves the table as it was and the caller gets the generic    *)
(* 500 body; a commit that succeeds applies every change of the           *)
(* operation; no other step of a request writes to the table.             *)
C9_AtomicCommit ==
    [][\A p \in Procs :
        /\ (Leaves(p, "flush") /\ resp'[p].status = StatusServerError) =>
              /\ table' = table
              /\ nextId' = nextId
              /\ resp'[p] = [status |-> 500, detail |-> "Internal server error",
                             errors |-> {}, items |-> <<>>]
        /\ (Leaves(p, "commit") /\ req[p].op = "update" /\ pc'[p] = "refresh"
              /\ req[p].id \in DOMAIN table) =>
              \A f \in dirty[p] : table'[req[p].id][f] = item[p][f]
        /\ (Moves(p) /\ pc[p] # "commit") => table' = table
    ]_vars

(* An update that set a new description and a null name was rejected at   *)
(* commit with 500.                                                       *)
C9_Witness ==
    \E p \in Procs :
        /\ UpdateDone(p)
        /\ resp[p].status = StatusServerError
        /\ req[p].id \in DOMAIN table
        /\ dirty[p] = {"name", "description"}
        /\ table[req[p].id].description # req[p].description

(* C10: an update that found its row before a concurrent delete of the    *)
(* row committed never brings the row back, and does not answer 200 once  *)
(* the row is gone.                                                       *)
C10_NoResurrection ==
    [][\A p \in Procs :
        /\ (Moves(p) /\ req[p].op = "update") => DOMAIN table' = DOMAIN table
        /\ (Moves(p) /\ req[p].op = "update" /\ pc'[p] = "teardown"
              /\ req[p].id \notin DOMAIN table) =>
              resp'[p].status # StatusOk
        /\ \A i \in Deleted : i \notin DOMAIN table'
    ]_vars

(* An update in flight over a delete of its row ended in 500, the delete  *)
(* in 204, and the row is gone.                                           *)
C10_Witness ==
    \E p, q \in Procs :
        /\ UpdateDone(p) /\ resp[p].status = StatusServerError
        /\ pc[q] = "teardown" /\ req[q].op = "delete"
        /\ resp[q].status = StatusNoContent
        /\ req[q].id = req[p].id
        /\ req[p].id \notin DOMAIN table

=============================================================================
